---- MODULE Spec2Model ----
(***************************************************************************)
(* A state-machine model of categorize_input_pairs.py: the loop over       *)
(* industries and year ranges (skip checks, output adjustment, predictor   *)
(* selection, training, sensitivity analysis), the categorization loop     *)
(* and the two to_csv calls.                                               *)
(*                                                                         *)
(* Numbers.  Change values of the dataset are integers (-1 is the          *)
(* missing-usage sentinel).  Test values and predictions are kept in       *)
(* hundredths (0.30 is 30).  A regression slope is an exact fraction       *)
(* [num, den] in lowest terms.  A cell of a result table is either a       *)
(* number Num(n, d) or a string Str(s).                                    *)
(***************************************************************************)
EXTENDS Integers, Sequences, FiniteSets, TLC

VARIABLES
    input_changes,           \* the merged wide table (read-only after load)
    coefficient_results,     \* result accumulator, a sequence of rows
    categorization_results,  \* [created, rows]: created at line 331
    grid_search,             \* the one GridSearchCV object, refitted per pair
    pc,                      \* position of the script
    ind_idx,                 \* index of current_industry in industries
    yr_idx,                  \* index of current_years in year_ranges
    tc_idx,                  \* index of test_commodity in cols_for_prediction
    data_extract,            \* rows of the current industry and year range
    data_train,              \* output-adjusted copy of data_extract
    cols_for_prediction,     \* predictor columns of the current pair
    data_train_x,            \* design matrix of the current pair
    data_train_y,            \* target vector of the current pair
    files,                   \* names of the result files written so far
    fit_calls,               \* history: the pairs grid_search.fit was called for
    fit_returns,             \* history: what each fit that returned left in grid_search
    raised,                  \* history: the pair at which fit or predict raised
    reg,                     \* the LinearRegression fitted last (line 316)
    predict_calls,           \* history: the calls of grid_search.predict made
                             \* for the test commodity analysed last
    visited,                 \* history: the iterations of the two loops so far
    data_io,                 \* import_io_data.py: the input-output tables
    price_change,            \* import_io_data.py: price change factors
    val_list,                \* import_io_data.py: ratios of the current column
    diff,                    \* import_io_data.py: columns of the current year
    input_change,            \* import_io_data.py: year -> completed diff
    final_data,              \* import_io_data.py: rows of input_quantity_changes.csv
    io_pc,                   \* import_io_data.py: position of the script
    io_year,                 \* import_io_data.py: index of year in years
    io_col,                  \* import_io_data.py: index of col in col_names
    io_row                   \* import_io_data.py: index of row in row_names

vars == << input_changes, coefficient_results, categorization_results,
           grid_search, pc, ind_idx, yr_idx, tc_idx, data_extract,
           data_train, cols_for_prediction, data_train_x, data_train_y,
           files, fit_calls, fit_returns, raised, reg, predict_calls,
           visited, data_io, price_change, val_list, diff, input_change,
           final_data, io_pc, io_year, io_col, io_row >>

(***************************************************************************)
(* Bounds of the model                                                     *)
(***************************************************************************)
\* At most this many cells of the dataset hold the sentinel -1.
MaxSentinels == 1

\* The years a to b in order.
Years(a, b) == [i \in 1..(b - a + 1) |-> a + i - 1]

\* The years the loaded dataset may cover (in order): one or two whole year
\* ranges, a first range short of its first year, and the first and the
\* third range without the second.
Coverages ==
    { Years(1970, 1977), Years(1971, 1977), Years(1974, 1977),
      Years(1970, 1973), Years(1970, 1973) \o Years(1978, 1981) }

\* The industries that have rows in the dataset.
DataIndustries == << "324", "325" >>

\* Slopes, curve shapes and cross-validated RMSEs a fit may produce.
Slopes == { 1 }
Shapes == { "linear", "step" }
RmseValues == { 0, 4 }

\* In the specification of the sensitivity analysis alone, the fitted model
\* has any slope of -MaxSlope..MaxSlope on each column and any of these
\* intercepts.
MaxSlope == 2
Intercepts == { 0, 1 }

\* The divisors the categorization of a cell is compared over.
MaxDivisor == 8
Divisors == 1..MaxDivisor

(***************************************************************************)
(* Configuration (lines 35-65)                                             *)
(***************************************************************************)
focus_commodity == "324"

year_ranges ==
    << <<1970, 1971, 1972, 1973>>, <<1974, 1975, 1976, 1977>>,
       <<1978, 1979, 1980, 1981>> >>

NumTestValues == 51

rmse_divisor == 4

complements_value == "C"

substitutes_value == "S"

n_splits == 4

(***************************************************************************)
(* Exact fractions                                                         *)
(***************************************************************************)
Abs(n) == IF n < 0 THEN -n ELSE n

RECURSIVE Gcd(_, _)
Gcd(a, b) == IF b = 0 THEN a ELSE Gcd(b, a % b)

\* The number n/d (d # 0) in lowest terms with a positive denominator.
Num(n, d) ==
    LET g == Gcd(Abs(n), Abs(d))
        s == IF d < 0 THEN -1 ELSE 1
    IN  [num |-> (s * n) \div g, den |-> (s * d) \div g]

Str(s) == [str |-> s]

IsNum(cell) == DOMAIN cell = {"num", "den"}

IsStr(cell) == DOMAIN cell = {"str"}

\* x >= r / d  and  x <= -r / d  and  |x| < r / d  for a fraction x, an
\* integer r and an integer d > 0 (x.den > 0).
GeqQuot(x, r, d) == x.num * d >= r * x.den

LeqNegQuot(x, r, d) == x.num * d <= (-r) * x.den

AbsLtQuot(x, r, d) == Abs(x.num) * d < r * x.den

(***************************************************************************)
(* The table built by lines 75-113, its columns and the industries         *)
(***************************************************************************)
\* Columns of the wide table after the pivot (sorted commodity codes) and
\* the merge of quantity_change (last).
WideColumns == << "324", "325", "Other", "quantity_change" >>

RECURSIVE SeqToSet(_)
SeqToSet(s) == IF s = << >> THEN {} ELSE {Head(s)} \cup SeqToSet(Tail(s))

Pos(s, e) == CHOOSE i \in 1..Len(s) : s[i] = e

\* A well-formed (sentinel-free) change value of a cell.
BaseValue(year, industry, col) ==
    IF col = "quantity_change"
    THEN (year + Pos(DataIndustries, industry)) % 2
    ELSE (year + Pos(DataIndustries, industry) + Pos(WideColumns, col)) % 3

\* Row k of a table covering the years of cov, one row per year and
\* industry in (year, industry) order, with the cells of `sentinels' at -1.
TableRow(cov, sentinels, k) ==
    LET n == Len(DataIndustries)
        y == cov[((k - 1) \div n) + 1]
        i == DataIndustries[((k - 1) % n) + 1]
    IN  [year |-> y, industry |-> i,
         v |-> [c \in SeqToSet(WideColumns) |->
                  IF << y, i, c >> \in sentinels THEN -1
                  ELSE BaseValue(y, i, c)]]

Table(cov, sentinels) ==
    [k \in 1..(Len(cov) * Len(DataIndustries)) |->
        TableRow(cov, sentinels, k)]

\* The first and the last year of each year range
BoundaryYears ==
    { year_ranges[r][1] : r \in 1..Len(year_ranges) }
        \cup { year_ranges[r][Len(year_ranges[r])] : r \in 1..Len(year_ranges) }

\* The cells that may hold a sentinel: those of the rows the loop reads (the
\* rows of the industry that is the focus commodity are never read, lines
\* 190-192, and stay sentinel-free) in the first and the last year of a
\* year range.
TableCells(cov) ==
    { << y, i, c >> :
        y \in SeqToSet(cov) \cap BoundaryYears,
        i \in SeqToSet(DataIndustries) \ {focus_commodity},
        c \in SeqToSet(WideColumns) }

RECURSIVE UpTo(_, _)
\* The subsets of S with at most k elements.
UpTo(S, k) ==
    IF k = 0 THEN {{}}
    ELSE LET smaller == UpTo(S, k - 1)
         IN  smaller \cup { T \cup {e} : T \in smaller, e \in S }

\* commodity_list (lines 129-132): every column of the result frame but
\* industry, year and rmse; quantity_change is one of them.
commodity_list == WideColumns

\* industries (line 137)
industries ==
    SelectSeq(commodity_list,
              LAMBDA x : x # "Other" /\ x # "Used" /\ x # "quantity_change")

Commodities == SeqToSet(commodity_list)

NotCreated == [created |-> FALSE, rows |-> << >>]

Unfitted == [fitted |-> FALSE]

NoPair == [industry |-> "", years |-> << >>]

\* The variables of import_io_data.py
ingestion == << data_io, price_change, val_list, diff, input_change,
               final_data, io_pc, io_year, io_col, io_row >>

\* import_io_data.py is not running: categorize_input_pairs.py is a
\* separate script that reads the files written earlier.
IngestionIdle ==
    /\ data_io = << >>
    /\ price_change = << >>
    /\ val_list = << >>
    /\ diff = << >>
    /\ input_change = << >>
    /\ final_data = << >>
    /\ io_pc = "idle"
    /\ io_year = 1
    /\ io_col = 1
    /\ io_row = 1

Init ==
    /\ \E cov \in Coverages : \E s \in UpTo(TableCells(cov), MaxSentinels) :
           input_changes = Table(cov, s)
    /\ coefficient_results = << >>
    /\ categorization_results = NotCreated
    /\ grid_search = Unfitted
    /\ pc = "industry"
    /\ ind_idx = 1
    /\ yr_idx = 1
    /\ tc_idx = 1
    /\ data_extract = << >>
    /\ data_train = << >>
    /\ cols_for_prediction = << >>
    /\ data_train_x = << >>
    /\ data_train_y = << >>
    /\ files = {}
    /\ fit_calls = << >>
    /\ fit_returns = << >>
    /\ raised = NoPair
    /\ reg = Unfitted
    /\ predict_calls = << >>
    /\ visited = << >>
    /\ IngestionIdle


(***************************************************************************)
(* The body of the year-range loop up to training (lines 198-253)          *)
(***************************************************************************)
current_industry == industries[ind_idx]

current_years == year_ranges[yr_idx]

\* current_years[0] and current_years[-1]
FirstYear(yrs) == yrs[1]

LastYear(yrs) == yrs[Len(yrs)]

\* Between with the right end left out
BetweenRightOpen(x, left, right) == left <= x /\ x < right

\* Series.between(left, right), both ends inclusive
Between(x, left, right) == left <= x /\ x <= right

\* Lines 204-205
Extract(table, industry, yrs) ==
    SelectSeq(table, LAMBDA row :
        /\ row.industry = industry
        /\ Between(row.year, FirstYear(yrs), LastYear(yrs)))

\* sum(data_extract[col] == -1), lines 221 and 242
NegOneCount(extract, col) ==
    Cardinality({ k \in 1..Len(extract) : extract[k].v[col] = -1 })

\* FocusIncomplete looking at the output-adjusted values
FocusIncompleteAdjusted(extract) ==
    Cardinality({ k \in 1..Len(extract) :
        extract[k].v[focus_commodity] - extract[k].v["quantity_change"] = -1 }) > 0

\* Line 221
FocusIncomplete(extract) == NegOneCount(extract, focus_commodity) > 0

neg_one_counts(extract) == [c \in Commodities |-> NegOneCount(extract, c)]

\* Line 234
commodity_list_without_qc ==
    SelectSeq(commodity_list, LAMBDA x : x # "quantity_change")

\* OutputAdjusted subtracting from every column of commodity_list
OutputAdjustedAll(extract) ==
    [k \in 1..Len(extract) |->
        [extract[k] EXCEPT !.v =
            [c \in Commodities |->
                extract[k].v[c] - extract[k].v["quantity_change"]]]]

\* Lines 233-237: subtract the row's quantity_change from every column of
\* commodity_list_without_qc; the other columns are those of the copy.
OutputAdjusted(extract) ==
    [k \in 1..Len(extract) |->
        [extract[k] EXCEPT !.v =
            [c \in Commodities |->
                IF c \in SeqToSet(commodity_list_without_qc)
                THEN extract[k].v[c] - extract[k].v["quantity_change"]
                ELSE extract[k].v[c]]]]

\* ColsForPrediction counting the -1 values of the output-adjusted table
ColsForPredictionAdjusted(extract) ==
    LET zero == SelectSeq(commodity_list, LAMBDA c :
                    \A k \in 1..Len(extract) :
                        (IF c = "quantity_change" THEN extract[k].v[c]
                         ELSE extract[k].v[c] - extract[k].v["quantity_change"]) # -1)
    IN  SelectSeq(zero, LAMBDA x : x # focus_commodity)

\* Lines 242-248
ColsForPrediction(extract) ==
    LET counts == neg_one_counts(extract)
        zero   == SelectSeq(commodity_list, LAMBDA c : counts[c] = 0)
    IN  SelectSeq(zero, LAMBDA x : x # focus_commodity)

\* Lines 252-253
TrainX(train, cols) ==
    [k \in 1..Len(train) |-> [c \in SeqToSet(cols) |-> train[k].v[c]]]

TrainY(train) == [k \in 1..Len(train) |-> train[k].v[focus_commodity]]

CurrentPair == [industry |-> current_industry, years |-> current_years]

loop_locals == << data_extract, data_train, cols_for_prediction,
                  data_train_x, data_train_y >>

results == << coefficient_results, categorization_results, files >>

history == << fit_calls, fit_returns, raised >>

analysis == << reg, predict_calls >>

\* An entry of the history of loop iterations: the industry, the year range
\* (none when the industry is skipped at lines 190-192) and what became of
\* the iteration.
Visit(industry, yrs, outcome) ==
    [industry |-> industry, years |-> yrs, outcome |-> outcome]

\* Line 187, loop exhausted: go on to line 331.
IndustriesDone ==
    /\ pc = "industry"
    /\ ind_idx > Len(industries)
    /\ pc' = "categorize"
    /\ UNCHANGED << input_changes, results, grid_search, ind_idx, yr_idx,
                    tc_idx, loop_locals, history,
                    analysis, visited, ingestion >>

\* Lines 190-192
SkipFocusIndustry ==
    /\ pc = "industry"
    /\ ind_idx <= Len(industries)
    /\ current_industry = focus_commodity
    /\ ind_idx' = ind_idx + 1
    /\ visited' = Append(visited, Visit(current_industry, << >>, "focus"))
    /\ UNCHANGED << input_changes, results, grid_search, pc, yr_idx,
                    tc_idx, loop_locals, history,
                    analysis, ingestion >>

\* Lines 187-198: enter the year-range loop of the industry.
EnterIndustry ==
    /\ pc = "industry"
    /\ ind_idx <= Len(industries)
    /\ current_industry # focus_commodity
    /\ yr_idx' = 1
    /\ pc' = "years"
    /\ UNCHANGED << input_changes, results, grid_search, ind_idx,
                    tc_idx, loop_locals, history,
                    analysis, visited, ingestion >>

\* Line 198, loop exhausted: next industry.
YearRangesDone ==
    /\ pc = "years"
    /\ yr_idx > Len(year_ranges)
    /\ ind_idx' = ind_idx + 1
    /\ pc' = "industry"
    /\ UNCHANGED << input_changes, results, grid_search, yr_idx,
                    tc_idx, loop_locals, history,
                    analysis, visited, ingestion >>

\* SkipAbsent with break in the place of continue: the remaining year ranges
\* of the industry are not visited
SkipAbsentBreaks ==
    /\ pc = "years"
    /\ yr_idx <= Len(year_ranges)
    /\ LET extract == Extract(input_changes, current_industry, current_years)
       IN  /\ Len(extract) = 0
           /\ data_extract' = extract
    /\ ind_idx' = ind_idx + 1
    /\ pc' = "industry"
    /\ visited' = Append(visited, Visit(current_industry, current_years, "absent"))
    /\ UNCHANGED << input_changes, results, grid_search, yr_idx,
                    tc_idx, data_train, cols_for_prediction,
                    data_train_x, data_train_y, history,
                    analysis, ingestion >>

\* Lines 204-215: no observation of the industry in the range.
SkipAbsent ==
    /\ pc = "years"
    /\ yr_idx <= Len(year_ranges)
    /\ LET extract == Extract(input_changes, current_industry, current_years)
       IN  /\ Len(extract) = 0
           /\ data_extract' = extract
    /\ yr_idx' = yr_idx + 1
    /\ visited' = Append(visited, Visit(current_industry, current_years, "absent"))
    /\ UNCHANGED << input_changes, results, grid_search, pc, ind_idx,
                    tc_idx, data_train, cols_for_prediction,
                    data_train_x, data_train_y, history,
                    analysis, ingestion >>

\* Lines 204-228: the focus commodity holds -1 in a row of the range.
SkipIncomplete ==
    /\ pc = "years"
    /\ yr_idx <= Len(year_ranges)
    /\ LET extract == Extract(input_changes, current_industry, current_years)
       IN  /\ Len(extract) # 0
           /\ FocusIncomplete(extract)
           /\ data_extract' = extract
    /\ yr_idx' = yr_idx + 1
    /\ visited' = Append(visited, Visit(current_industry, current_years, "incomplete"))
    /\ UNCHANGED << input_changes, results, grid_search, pc, ind_idx,
                    tc_idx, data_train, cols_for_prediction,
                    data_train_x, data_train_y, history,
                    analysis, ingestion >>

\* The table with the rows of an industry and year range replaced, in
\* order, by the rows of train
WrittenBack(table, industry, yrs, train) ==
    [k \in 1..Len(table) |->
        IF table[k].industry = industry
           /\ Between(table[k].year, FirstYear(yrs), LastYear(yrs))
        THEN train[Cardinality({ j \in 1..k :
                 /\ table[j].industry = industry
                 /\ Between(table[j].year, FirstYear(yrs), LastYear(yrs)) })]
        ELSE table[k]]

\* Prepare with the output adjustment made on the rows of input_changes
\* themselves and not on a deep copy of the extract (line 233)
PrepareInPlace ==
    /\ pc = "years"
    /\ yr_idx <= Len(year_ranges)
    /\ LET extract == Extract(input_changes, current_industry, current_years)
           train   == OutputAdjusted(extract)
           cols    == ColsForPrediction(extract)
       IN  /\ Len(extract) # 0
           /\ ~ FocusIncomplete(extract)
           /\ data_extract' = train
           /\ data_train' = train
           /\ input_changes' = WrittenBack(input_changes, current_industry,
                                           current_years, train)
           /\ cols_for_prediction' = cols
           /\ data_train_x' = TrainX(train, cols)
           /\ data_train_y' = TrainY(train)
    /\ pc' = "fit"
    /\ visited' = Append(visited, Visit(current_industry, current_years, "processed"))
    /\ UNCHANGED << results, grid_search, ind_idx, yr_idx,
                    tc_idx, history, analysis, ingestion >>

\* Lines 204-253: neither skip applies; build the training data.
Prepare ==
    /\ pc = "years"
    /\ yr_idx <= Len(year_ranges)
    /\ LET extract == Extract(input_changes, current_industry, current_years)
           train   == OutputAdjusted(extract)
           cols    == ColsForPrediction(extract)
       IN  /\ Len(extract) # 0
           /\ ~ FocusIncomplete(extract)
           /\ data_extract' = extract
           /\ data_train' = train
           /\ cols_for_prediction' = cols
           /\ data_train_x' = TrainX(train, cols)
           /\ data_train_y' = TrainY(train)
    /\ pc' = "fit"
    /\ visited' = Append(visited, Visit(current_industry, current_years, "processed"))
    /\ UNCHANGED << input_changes, results, grid_search, ind_idx, yr_idx,
                    tc_idx, history,
                    analysis, ingestion >>


(***************************************************************************)
(* Training (lines 144-179 and 261)                                        *)
(***************************************************************************)
\* The response of a fitted model to one feature value (in hundredths): a
\* straight line, or the piecewise-constant step of a tree split at 0.
Curve(shape, x) ==
    IF shape = "linear" THEN x
    ELSE IF x > 0 THEN 50 ELSE 0

RECURSIVE SumOver(_, _)
\* The sum of f[c] over the columns c of the sequence cols.
SumOver(cols, f) ==
    IF cols = << >> THEN 0 ELSE f[Head(cols)] + SumOver(Tail(cols), f)

\* grid_search.predict on one row x (a value in hundredths per column of
\* cols), in hundredths.
Predict(model, cols, x) ==
    100 * model.b
      + SumOver(cols, [c \in SeqToSet(cols) |->
                          model.w[c] * Curve(model.shape, x[c])])

\* The estimators a fit on the columns cols may return: the slope a on the
\* columns at odd positions and -a on those at even positions.
FittedModels(cols) ==
    { [w |-> [c \in SeqToSet(cols) |->
                 IF Pos(cols, c) % 2 = 1 THEN a ELSE -a],
       b |-> 1, shape |-> sh] : a \in Slopes, sh \in Shapes }

\* CanFit without the lower bound of the cross-validation on the rows
CanFitAnyRows(x, cols) == Len(x) >= 1 /\ Len(cols) >= 1

\* RepeatedKFold(n_splits=4) cannot split fewer than n_splits rows, and the
\* regressor cannot be fitted on a matrix without columns.
CanFit(x, cols) == Len(x) >= n_splits /\ Len(cols) >= 1

\* Fit that trains only while grid_search is unfitted and afterwards keeps
\* the estimator and the score of the first pair
FitKeepsFirstModel ==
    /\ pc = "fit"
    /\ CanFit(data_train_x, cols_for_prediction)
    /\ \E m \in FittedModels(cols_for_prediction) : \E r \in RmseValues :
           grid_search' = IF grid_search.fitted THEN grid_search
                          ELSE [fitted |-> TRUE, best_estimator |-> m,
                                best_score |-> -r, pair |-> CurrentPair]
    /\ fit_calls' = Append(fit_calls, CurrentPair)
    /\ fit_returns' = Append(fit_returns, grid_search')
    /\ pc' = "append"
    /\ UNCHANGED << input_changes, results, ind_idx, yr_idx, tc_idx,
                    loop_locals, raised, analysis, visited, ingestion >>

\* Line 261, the fit returns: best_estimator_ and best_score_ are set.
Fit ==
    /\ pc = "fit"
    /\ CanFit(data_train_x, cols_for_prediction)
    /\ \E m \in FittedModels(cols_for_prediction) : \E r \in RmseValues :
           grid_search' = [fitted |-> TRUE, best_estimator |-> m,
                           best_score |-> -r, pair |-> CurrentPair]
    /\ fit_calls' = Append(fit_calls, CurrentPair)
    /\ fit_returns' = Append(fit_returns, grid_search')
    /\ pc' = "append"
    /\ UNCHANGED << input_changes, results, ind_idx, yr_idx, tc_idx,
                    loop_locals, raised,
                    analysis, visited, ingestion >>

\* FitRaises with the exception caught and the pair skipped
FitRaisesSkipped ==
    /\ pc = "fit"
    /\ fit_calls' = Append(fit_calls, CurrentPair)
    /\ raised' = CurrentPair
    /\ yr_idx' = yr_idx + 1
    /\ pc' = "years"
    /\ UNCHANGED << input_changes, results, grid_search, ind_idx,
                    tc_idx, loop_locals, fit_returns,
                    analysis, visited, ingestion >>

\* Line 261, the fit raises: the exception is caught nowhere and ends the
\* script.
FitRaises ==
    /\ pc = "fit"
    /\ fit_calls' = Append(fit_calls, CurrentPair)
    /\ raised' = CurrentPair
    /\ pc' = "aborted"
    /\ UNCHANGED << input_changes, results, grid_search, ind_idx, yr_idx,
                    tc_idx, loop_locals, fit_returns,
                    analysis, visited, ingestion >>

(***************************************************************************)
(* The result row (lines 267-275)                                          *)
(***************************************************************************)
\* str(current_years[0]) + ":" + str(current_years[-1])
YearLabel(yrs) == ToString(FirstYear(yrs)) \o ":" \o ToString(LastYear(yrs))

\* Line 268: a row of zeros; lines 272-275: industry, year and rmse.
NewRow(industry, yrs, best_score) ==
    [industry |-> industry, year |-> YearLabel(yrs), rmse |-> -best_score,
     v |-> [c \in Commodities |-> Num(0, 1)]]

AppendRowOverwritesLast ==
    /\ pc = "append"
    /\ coefficient_results' =
           LET new_row == NewRow(current_industry, current_years,
                                 grid_search.best_score)
           IN  IF coefficient_results = << >>
               THEN << new_row >>
               ELSE [coefficient_results
                        EXCEPT ![Len(coefficient_results)] = new_row]
    /\ tc_idx' = 1
    /\ pc' = "sens"
    /\ UNCHANGED << input_changes, categorization_results, files,
                    grid_search, ind_idx, yr_idx, loop_locals,
                    history,
                    analysis, visited, ingestion >>

AppendRow ==
    /\ pc = "append"
    /\ coefficient_results' =
           Append(coefficient_results,
                  NewRow(current_industry, current_years,
                         grid_search.best_score))
    /\ tc_idx' = 1
    /\ pc' = "sens"
    /\ UNCHANGED << input_changes, categorization_results, files,
                    grid_search, ind_idx, yr_idx, loop_locals,
                    history,
                    analysis, visited, ingestion >>

(***************************************************************************)
(* Sensitivity analysis (lines 282-322)                                    *)
(***************************************************************************)
\* linspace(start, stop, num)[i - 1], in thousandths
Linspace(start, stop, num, i) == start + ((i - 1) * (stop - start)) \div (num - 1)

\* Line 52, in thousandths
test_values == [i \in 1..NumTestValues |-> Linspace(-500, 500, NumTestValues, i)]

\* numpy round(x, 2) of a value in thousandths, in hundredths (half to even)
Round2(x) ==
    LET q == x \div 10
        r == x % 10
    IN  IF r < 5 THEN q
        ELSE IF r > 5 THEN q + 1
        ELSE IF q % 2 = 0 THEN q ELSE q + 1

\* Lines 306: the test values as stored
replaced_val == [i \in 1..NumTestValues |-> Round2(test_values[i])]

\* sub_test created once before the loop of line 282: the columns tested
\* before the test commodity keep the last test value
sub_testCarriedOver(cols, test_commodity, i) ==
    [c \in SeqToSet(cols) |->
        IF c = test_commodity THEN replaced_val[i]
        ELSE IF Pos(cols, c) < Pos(cols, test_commodity)
             THEN replaced_val[NumTestValues]
             ELSE 0]

\* sub_test with every column at the test value, not only the test commodity
sub_testAllColumns(cols, test_commodity, i) ==
    [c \in SeqToSet(cols) |-> replaced_val[i]]

\* Lines 293-303: the row of zeros with the test commodity at the i-th
\* test value
sub_test(cols, test_commodity, i) ==
    [c \in SeqToSet(cols) |-> IF c = test_commodity THEN replaced_val[i] ELSE 0]

\* Lines 310-313
predicted_val(model, cols, test_commodity) ==
    [i \in 1..NumTestValues |->
        Predict(model, cols, sub_test(cols, test_commodity, i))]

RECURSIVE SumTo(_, _)
\* s[1] + ... + s[n]
SumTo(s, n) == IF n = 0 THEN 0 ELSE SumTo(s, n - 1) + s[n]

Sum(s) == SumTo(s, Len(s))

Products(x, y) == [i \in 1..Len(x) |-> x[i] * y[i]]

\* LinearRegression(fit_intercept=True).fit(x, y).coef_: the least-squares
\* slope of y on x.
RegCoef(replaced, predicted) ==
    LET n == Len(replaced)
        x == replaced \o << >>
        y == predicted \o << >>
    IN  Num(n * Sum(Products(x, y)) - Sum(x) * Sum(y),
            n * Sum(Products(x, x)) - Sum(x) * Sum(x))

\* LinearRegression(fit_intercept=True).fit(x, y).intercept_: the mean of y
\* minus the slope times the mean of x, in hundredths.
RegIntercept(replaced, predicted) ==
    LET n == Len(replaced)
        x == replaced \o << >>
        y == predicted \o << >>
    IN  Num(Sum(y) * Sum(Products(x, x)) - Sum(x) * Sum(Products(x, y)),
            n * Sum(Products(x, x)) - Sum(x) * Sum(x))

\* LinearRegression with fit_intercept=False: a line through the origin
LinearRegressionNoIntercept(replaced, predicted) ==
    LET x == replaced \o << >>
        y == predicted \o << >>
    IN  [fitted |-> TRUE, coef |-> Num(Sum(Products(x, y)), Sum(Products(x, x))),
         intercept |-> Num(0, 1)]

\* Lines 316-318: the fitted regression object
LinearRegression(replaced, predicted) ==
    [fitted |-> TRUE, coef |-> RegCoef(replaced, predicted),
     intercept |-> RegIntercept(replaced, predicted)]

\* Lines 310-313: the calls of grid_search.predict of one test commodity,
\* each with the row passed, the value returned and the pair the queried
\* estimator was fitted for.
PredictCalls(gs, cols, test_commodity) ==
    LET y == predicted_val(gs.best_estimator, cols, test_commodity) \o << >>
    IN  [i \in 1..NumTestValues |->
            [x |-> sub_test(cols, test_commodity, i), y |-> y[i],
             estimator_of |-> gs.pair]] \o << >>

\* Line 322: reg.coef_.tolist()[0]
Coefficient(r) == r.coef

\* WriteCoefficient writing into the first row of the results
WriteCoefficientFirstRow(rows, col, value) ==
    [rows EXCEPT ![1].v[col] = value]

\* Line 322: the write into the last row of the results
WriteCoefficient(rows, col, value) ==
    [rows EXCEPT ![Len(rows)].v[col] = value]

test_commodity == cols_for_prediction[tc_idx]

\* Analyze leaving the loop of line 282 after its first iteration: the next
\* pair begins while the row lacks coefficients
AnalyzeLeavesEarly ==
    /\ pc = "sens"
    /\ tc_idx <= Len(cols_for_prediction)
    /\ predict_calls' =
           PredictCalls(grid_search, cols_for_prediction, test_commodity)
    /\ reg' = LinearRegression(replaced_val,
                               [i \in 1..NumTestValues |-> predict_calls'[i].y])
    /\ coefficient_results' =
           WriteCoefficient(coefficient_results, test_commodity,
                            Coefficient(reg'))
    /\ tc_idx' = tc_idx
    /\ yr_idx' = yr_idx + 1
    /\ pc' = "years"
    /\ UNCHANGED << input_changes, categorization_results, files,
                    grid_search, ind_idx, loop_locals, history, visited, ingestion >>

\* One iteration of the loop of line 282; after the last one the body of
\* the year-range loop ends.
Analyze ==
    /\ pc = "sens"
    /\ tc_idx <= Len(cols_for_prediction)
    /\ predict_calls' =
           PredictCalls(grid_search, cols_for_prediction, test_commodity)
    /\ reg' = LinearRegression(replaced_val,
                               [i \in 1..NumTestValues |-> predict_calls'[i].y])
    /\ coefficient_results' =
           WriteCoefficient(coefficient_results, test_commodity,
                            Coefficient(reg'))
    /\ IF tc_idx < Len(cols_for_prediction)
       THEN /\ tc_idx' = tc_idx + 1
            /\ UNCHANGED << pc, yr_idx >>
       ELSE /\ tc_idx' = tc_idx
            /\ yr_idx' = yr_idx + 1
            /\ pc' = "years"
    /\ UNCHANGED << input_changes, categorization_results, files,
                    grid_search, ind_idx, loop_locals, history, visited, ingestion >>

\* Line 310, the prediction raises: the exception ends the script.
PredictRaises ==
    /\ pc = "sens"
    /\ tc_idx <= Len(cols_for_prediction)
    /\ raised' = CurrentPair
    /\ pc' = "aborted"
    /\ UNCHANGED << input_changes, results, grid_search, ind_idx, yr_idx,
                    tc_idx, loop_locals, fit_calls, fit_returns,
                    analysis, visited, ingestion >>

(***************************************************************************)
(* Categorization (lines 329-349) and persistence (lines 352-362)          *)
(***************************************************************************)
\* Categorize with the 'S' assignment before the 'C' assignment
CategorizeSubstitutesFirst(old, coef, rmse) ==
    LET c1 == IF LeqNegQuot(coef, rmse, rmse_divisor)
              THEN Str(substitutes_value) ELSE old
        c2 == IF GeqQuot(coef, rmse, rmse_divisor)
              THEN Str(complements_value) ELSE c1
    IN  IF AbsLtQuot(coef, rmse, rmse_divisor) THEN Str("") ELSE c2

\* Categorize without the third assignment (the empty string)
CategorizeTwoLabels(old, coef, rmse) ==
    LET c1 == IF GeqQuot(coef, rmse, rmse_divisor)
              THEN Str(complements_value) ELSE old
    IN  IF LeqNegQuot(coef, rmse, rmse_divisor)
        THEN Str(substitutes_value) ELSE c1

\* CategorizeDiv with the operands of the division exchanged: the
\* thresholds are d / r (no finite threshold, hence '', when r is 0)
CategorizeDivExchanged(old, coef, rmse, d) ==
    LET c1 == IF GeqQuot(coef, d, rmse)
              THEN Str(complements_value) ELSE old
        c2 == IF LeqNegQuot(coef, d, rmse)
              THEN Str(substitutes_value) ELSE c1
    IN  IF rmse = 0 \/ AbsLtQuot(coef, d, rmse) THEN Str("") ELSE c2

\* Lines 339-349 for one cell and a divisor d: the three masked assignments
\* in order, each mask computed from the coefficient results.
CategorizeDiv(old, coef, rmse, d) ==
    LET c1 == IF GeqQuot(coef, rmse, d)
              THEN Str(complements_value) ELSE old
        c2 == IF LeqNegQuot(coef, rmse, d)
              THEN Str(substitutes_value) ELSE c1
    IN  IF AbsLtQuot(coef, rmse, d) THEN Str("") ELSE c2

\* Categorize with the two labels exchanged
CategorizeLabelsSwapped(old, coef, rmse) ==
    LET c1 == IF GeqQuot(coef, rmse, rmse_divisor)
              THEN Str(substitutes_value) ELSE old
        c2 == IF LeqNegQuot(coef, rmse, rmse_divisor)
              THEN Str(complements_value) ELSE c1
    IN  IF AbsLtQuot(coef, rmse, rmse_divisor) THEN Str("") ELSE c2

\* Lines 339-349 for one cell with the divisor of line 59
Categorize(old, coef, rmse) == CategorizeDiv(old, coef, rmse, rmse_divisor)

\* Lines 339-349 for one commodity column, all rows
LabelColumn(cat_rows, coef_rows, col) ==
    [k \in 1..Len(cat_rows) |->
        [cat_rows[k] EXCEPT !.v[col] =
            Categorize(cat_rows[k].v[col], coef_rows[k].v[col],
                       coef_rows[k].rmse)]]

RECURSIVE LabelColumns(_, _, _)
\* The loop of line 338 over the columns cols
LabelColumns(cat_rows, coef_rows, cols) ==
    IF cols = << >> THEN cat_rows
    ELSE LabelColumns(LabelColumn(cat_rows, coef_rows, Head(cols)),
                      coef_rows, Tail(cols))

\* Lines 331-349: the deep copy, then the loop over commodity_list
CategorizationResults(coef_rows) ==
    LabelColumns(coef_rows, coef_rows, commodity_list)

Categorization ==
    /\ pc = "categorize"
    /\ categorization_results' =
           [created |-> TRUE,
            rows |-> CategorizationResults(coefficient_results)]
    /\ pc' = "save_coefficient"
    /\ UNCHANGED << input_changes, coefficient_results, files, grid_search,
                    ind_idx, yr_idx, tc_idx, loop_locals, history,
                    analysis, visited, ingestion >>

\* Lines 357-358
SaveCoefficients ==
    /\ pc = "save_coefficient"
    /\ files' = files \cup {"coefficient_results"}
    /\ pc' = "save_categorization"
    /\ UNCHANGED << input_changes, coefficient_results,
                    categorization_results, grid_search, ind_idx, yr_idx,
                    tc_idx, loop_locals, history,
                    analysis, visited, ingestion >>

\* Lines 361-362
SaveCategorization ==
    /\ pc = "save_categorization"
    /\ files' = files \cup {"categorization_results"}
    /\ pc' = "done"
    /\ UNCHANGED << input_changes, coefficient_results,
                    categorization_results, grid_search, ind_idx, yr_idx,
                    tc_idx, loop_locals, history,
                    analysis, visited, ingestion >>

Next ==
    \/ IndustriesDone
    \/ SkipFocusIndustry
    \/ EnterIndustry
    \/ YearRangesDone
    \/ SkipAbsent
    \/ SkipIncomplete
    \/ Prepare
    \/ Fit
    \/ FitRaises
    \/ AppendRow
    \/ Analyze
    \/ PredictRaises
    \/ Categorization
    \/ SaveCoefficients
    \/ SaveCategorization

Spec == Init /\ [][Next]_vars

\* The steps of the script outside the loop of line 282
OtherSteps ==
    \/ IndustriesDone
    \/ SkipFocusIndustry
    \/ EnterIndustry
    \/ YearRangesDone
    \/ SkipAbsent
    \/ SkipIncomplete
    \/ Prepare
    \/ Fit
    \/ FitRaises
    \/ AppendRow
    \/ Categorization
    \/ SaveCoefficients
    \/ SaveCategorization

\* A step of the loop of line 282 (Analyze or PredictRaises) as it shows on
\* the position of the script
SensStep ==
    /\ pc = "sens"
    /\ tc_idx <= Len(cols_for_prediction)
    /\ pc' \in {"sens", "years", "aborted"}
    /\ tc_idx' \in {tc_idx, tc_idx + 1}
    /\ (pc' # pc \/ tc_idx' # tc_idx)

\* The script is one sequential process that runs until it ends or an
\* exception ends it: a step that can be taken is taken.
SpecLive == Spec /\ WF_vars(OtherSteps) /\ WF_<<pc, tc_idx>>(SensStep)

(***************************************************************************)
(* The sensitivity analysis and the categorization on their own: the       *)
(* script right after the row of the first pair of a sentinel-free dataset *)
(* was appended (line 275), for every fitted model of a wider family.      *)
(***************************************************************************)
SensModels(cols) ==
    { [w |-> w, b |-> b, shape |-> sh] :
        w \in [SeqToSet(cols) -> (-MaxSlope)..MaxSlope],
        b \in Intercepts, sh \in Shapes }

SensIndustry == "325"

SensYears == year_ranges[1]

InitSens ==
    LET table   == Table(SensYears, {})
        extract == Extract(table, SensIndustry, SensYears)
        train   == OutputAdjusted(extract)
        cols    == ColsForPrediction(extract)
        pair    == [industry |-> SensIndustry, years |-> SensYears]
    IN  /\ input_changes = table
        /\ ind_idx = Pos(industries, SensIndustry)
        /\ yr_idx = 1
        /\ data_extract = extract
        /\ data_train = train
        /\ cols_for_prediction = cols
        /\ data_train_x = TrainX(train, cols)
        /\ data_train_y = TrainY(train)
        /\ \E m \in SensModels(cols) : \E r \in RmseValues :
               /\ grid_search = [fitted |-> TRUE, best_estimator |-> m,
                                 best_score |-> -r, pair |-> pair]
               /\ fit_returns = << grid_search >>
               /\ coefficient_results = << NewRow(SensIndustry, SensYears, -r) >>
        /\ fit_calls = << pair >>
        /\ categorization_results = NotCreated
        /\ files = {}
        /\ raised = NoPair
        /\ reg = Unfitted
        /\ predict_calls = << >>
        /\ visited = << Visit(focus_commodity, << >>, "focus"),
                        Visit(SensIndustry, SensYears, "processed") >>
        /\ IngestionIdle
        /\ tc_idx = 1
        /\ pc = "sens"

NextSens ==
    \/ Analyze
    \/ PredictRaises
    \/ SkipAbsent
    \/ YearRangesDone
    \/ IndustriesDone
    \/ Categorization
    \/ SaveCoefficients
    \/ SaveCategorization

SpecSens == InitSens /\ [][NextSens]_vars


(***************************************************************************)
(* import_io_data.py: the input quantity changes.  For every year, every   *)
(* industry (column) and every commodity (row) of the input-output table   *)
(* the script writes the ratio of the usage in the year to the usage in    *)
(* the year before, divided by the price change factor of the commodity.   *)
(* The tables are bounded to one industry, two commodities and two years   *)
(* after the base year; usages and price indexes are small integers.       *)
(***************************************************************************)
UsageValues == {0, 1, 2}

PriceIndexes == {0, 1, 2}

BaseYear == 1963

years == <<1964, 1965>>

col_names == <<"325">>

row_names == <<"324", "Other">>

TableYears == {BaseYear} \cup SeqToSet(years)

\* The rows that have a price index: all but 'Used' and 'Other'.
PricedRows == SeqToSet(row_names) \ {"Used", "Other"}

\* One entry of price_change: the ratio of the index to the index of the
\* year before, 0 when the index of the year before is 0.
PriceChange(val_curr_p, val_prev_p) ==
    IF val_prev_p # 0 THEN Num(val_curr_p, val_prev_p) ELSE Num(0, 1)

\* The price change factor of a row in a year.
price_factor(year, row) ==
    IF row = "Used" \/ row = "Other" THEN Num(1, 1) ELSE price_change[year][row]

\* The value appended to val_list for one industry/commodity combination.
InputRatio(val_curr, val_prev, factor) ==
    IF val_prev # 0
    THEN IF factor # Num(0, 1)
         THEN Num(val_curr * factor.den, val_prev * factor.num)
         ELSE Num(0, 1)
    ELSE Num(0, 1)

\* The rows of the flattened data frame: year by year, the melted diff of
\* the year, column by column and row by row.
Flatten(changes) ==
    LET nc == Len(col_names)
        nr == Len(row_names)
    IN  [ n \in 1..(Len(years) * nc * nr) |->
            LET y == years[((n - 1) \div (nc * nr)) + 1]
                c == col_names[(((n - 1) \div nr) % nc) + 1]
                r == ((n - 1) % nr) + 1
            IN  [year |-> y, industry |-> c, commodity |-> row_names[r],
                 value |-> changes[y][c][r]] ]

\* categorize_input_pairs.py centres the ratios around zero.
Centred(value) == Num(value.num - value.den, value.den)

\* categorize_input_pairs.py is not running.
CategorizeIdle ==
    /\ input_changes = << >>
    /\ coefficient_results = << >>
    /\ categorization_results = NotCreated
    /\ grid_search = Unfitted
    /\ pc = "idle"
    /\ ind_idx = 1
    /\ yr_idx = 1
    /\ tc_idx = 1
    /\ data_extract = << >>
    /\ data_train = << >>
    /\ cols_for_prediction = << >>
    /\ data_train_x = << >>
    /\ data_train_y = << >>
    /\ files = {}
    /\ fit_calls = << >>
    /\ fit_returns = << >>
    /\ raised = NoPair
    /\ reg = Unfitted
    /\ predict_calls = << >>
    /\ visited = << >>

categorize == << input_changes, coefficient_results, categorization_results,
                grid_search, pc, ind_idx, yr_idx, tc_idx, data_extract,
                data_train, cols_for_prediction, data_train_x, data_train_y,
                files, fit_calls, fit_returns, raised, reg, predict_calls,
                visited >>

InitImport ==
    /\ CategorizeIdle
    /\ data_io \in [TableYears -> [SeqToSet(col_names) ->
                                      [SeqToSet(row_names) -> UsageValues]]]
    /\ \E prices \in [TableYears -> [PricedRows -> PriceIndexes]] :
           price_change =
               [y \in SeqToSet(years) |->
                   [r \in PricedRows |-> PriceChange(prices[y][r], prices[y - 1][r])]]
    /\ val_list = << >>
    /\ diff = << >>
    /\ input_change = << >>
    /\ final_data = << >>
    /\ io_pc = "import"
    /\ io_year = 1
    /\ io_col = 1
    /\ io_row = 1

\* One iteration of the loop over the rows (commodities).
ImportRatio ==
    /\ io_pc = "import"
    /\ io_year <= Len(years)
    /\ io_col <= Len(col_names)
    /\ io_row <= Len(row_names)
    /\ LET year == years[io_year]
           col == col_names[io_col]
           row == row_names[io_row]
           val_curr == data_io[year][col][row]
           val_prev == data_io[year - 1][col][row]
       IN  val_list' = Append(val_list,
                              InputRatio(val_curr, val_prev, price_factor(year, row)))
    /\ io_row' = io_row + 1
    /\ UNCHANGED << data_io, price_change, diff, input_change, final_data,
                    io_pc, io_year, io_col, categorize >>

\* The rows are exhausted: the list becomes the column of the industry.
ImportColumn ==
    /\ io_pc = "import"
    /\ io_year <= Len(years)
    /\ io_col <= Len(col_names)
    /\ io_row > Len(row_names)
    /\ diff' = (col_names[io_col] :> val_list) @@ diff
    /\ val_list' = << >>
    /\ io_col' = io_col + 1
    /\ io_row' = 1
    /\ UNCHANGED << data_io, price_change, input_change, final_data, io_pc,
                    io_year, categorize >>

\* The columns are exhausted: the data frame is stored under the year.
ImportYear ==
    /\ io_pc = "import"
    /\ io_year <= Len(years)
    /\ io_col > Len(col_names)
    /\ input_change' = (years[io_year] :> diff) @@ input_change
    /\ diff' = << >>
    /\ io_year' = io_year + 1
    /\ io_col' = 1
    /\ UNCHANGED << data_io, price_change, val_list, final_data, io_pc,
                    io_row, categorize >>

\* The years are exhausted: the dictionary is flattened and written.
ImportSave ==
    /\ io_pc = "import"
    /\ io_year > Len(years)
    /\ final_data' = Flatten(input_change)
    /\ io_pc' = "saved"
    /\ UNCHANGED << data_io, price_change, val_list, diff, input_change,
                    io_year, io_col, io_row, categorize >>

NextImport ==
    \/ ImportRatio
    \/ ImportColumn
    \/ ImportYear
    \/ ImportSave

SpecImport == InitImport /\ [][NextImport]_vars


(***************************************************************************)
(* Readings of the state used by the properties below.  They look at the   *)
(* dataset and at the result tables directly, not through the operators    *)
(* the actions use.                                                        *)
(***************************************************************************)
AllIndustries == SeqToSet(industries)

AllRanges == SeqToSet(year_ranges)

\* The rows of the dataset of an industry with the year inside a range
RowsOfPair(industry, yrs) ==
    { k \in 1..Len(input_changes) :
        /\ input_changes[k].industry = industry
        /\ input_changes[k].year >= yrs[1]
        /\ input_changes[k].year <= yrs[Len(yrs)] }

\* The raw value of column col is -1 in at least one row of the pair
HasSentinel(industry, yrs, col) ==
    \E k \in RowsOfPair(industry, yrs) : input_changes[k].v[col] = -1

\* One of the two skip conditions holds of the pair
Skippable(industry, yrs) ==
    \/ RowsOfPair(industry, yrs) = {}
    \/ HasSentinel(industry, yrs, focus_commodity)

\* The rows of a result table that belong to a pair
ResultRows(rows, industry, yrs) ==
    { k \in 1..Len(rows) :
        rows[k].industry = industry /\ rows[k].year = YearLabel(yrs) }

\* The year range a result row is labelled with
RangeOfRow(row) == CHOOSE yrs \in AllRanges : YearLabel(yrs) = row.year

\* Row k of the coefficient results has all its coefficients written
RowComplete(k) ==
    k < Len(coefficient_results) \/ pc \notin {"sens", "aborted"}

\* The least-squares slope, over the 51 test values, of the response of a
\* model to column c: w for a line of slope w, and 25/34 of w for a step
\* of height w/2 at 0 (sum of v * 0.5 over v > 0, divided by the sum of
\* v * v).
SlopeOfModel(m, c) ==
    IF m.shape = "linear" THEN Num(m.w[c], 1) ELSE Num(25 * m.w[c], 34)

\* x >= r / d and x <= -r / d for a fraction x
AtLeastThreshold(x, r, d) == x.num * d >= r * x.den

AtMostMinusThreshold(x, r, d) == x.num * d <= -(r * x.den)

(***************************************************************************)
(* C1                                                                      *)
(***************************************************************************)
\* C1 as stated: in every row (RMSE r >= 0, divisor 4) and every commodity
\* column with coefficient c, the cell is 'C' iff c >= r/d, 'S' iff
\* c <= -r/d, and '' otherwise.
C1_AsStated ==
    categorization_results.created =>
        \A k \in 1..Len(coefficient_results) : \A c \in Commodities :
            LET x    == coefficient_results[k].v[c]
                r    == coefficient_results[k].rmse
                cell == categorization_results.rows[k].v[c]
                up   == AtLeastThreshold(x, r, rmse_divisor)
                down == AtMostMinusThreshold(x, r, rmse_divisor)
            IN  /\ r >= 0
                /\ cell = Str("C") <=> up
                /\ cell = Str("S") <=> down
                /\ cell = Str("") <=> (~up /\ ~down)

\* C1 as amended: in every row (RMSE r >= 0, divisor 4) and every commodity
\* column with coefficient c, the cell is 'S' iff c <= -r/d, 'C' iff
\* c >= r/d and not c <= -r/d, and '' otherwise; when c = 0 and r = 0 both
\* comparisons hold and the cell is 'S'.
C1_Categorization ==
    categorization_results.created =>
        \A k \in 1..Len(coefficient_results) : \A c \in Commodities :
            LET x    == coefficient_results[k].v[c]
                r    == coefficient_results[k].rmse
                cell == categorization_results.rows[k].v[c]
                up   == AtLeastThreshold(x, r, rmse_divisor)
                down == AtMostMinusThreshold(x, r, rmse_divisor)
            IN  /\ r >= 0
                /\ cell = Str("S") <=> down
                /\ cell = Str("C") <=> (up /\ ~down)
                /\ cell = Str("") <=> (~up /\ ~down)
                /\ (x.num = 0 /\ r = 0) => cell = Str("S")

\* A table with a coefficient exactly at the threshold r/d of a row with
\* r > 0 labelled 'C', a zero coefficient in a row with r = 0 labelled 'S',
\* and an empty cell.
C1_Witness ==
    /\ categorization_results.created
    /\ \E k \in 1..Len(coefficient_results) : \E c \in Commodities :
           /\ coefficient_results[k].rmse > 0
           /\ coefficient_results[k].v[c].num * rmse_divisor
                  = coefficient_results[k].rmse * coefficient_results[k].v[c].den
           /\ categorization_results.rows[k].v[c] = Str("C")
    /\ \E k \in 1..Len(coefficient_results) : \E c \in Commodities :
           /\ coefficient_results[k].rmse = 0
           /\ coefficient_results[k].v[c].num = 0
           /\ categorization_results.rows[k].v[c] = Str("S")
    /\ \E k \in 1..Len(coefficient_results) : \E c \in Commodities :
           categorization_results.rows[k].v[c] = Str("")

(***************************************************************************)
(* C2                                                                      *)
(***************************************************************************)
\* C2: a pair whose industry has no row in the range, or whose focus
\* commodity is -1 in a row of the range, never gets a row in the
\* coefficient results or in the categorization results, and fit is never
\* called for it.
C2_SkippedPairs ==
    \A i \in AllIndustries : \A yrs \in AllRanges :
        Skippable(i, yrs) =>
            /\ ResultRows(coefficient_results, i, yrs) = {}
            /\ ResultRows(categorization_results.rows, i, yrs) = {}
            /\ \A n \in 1..Len(fit_calls) :
                   fit_calls[n] # [industry |-> i, years |-> yrs]
            /\ ~ (pc = "fit" /\ CurrentPair = [industry |-> i, years |-> yrs])

\* The run is done, one range of an industry was skipped for a sentinel of
\* the focus commodity and the other range has its row.
C2_Witness ==
    /\ pc = "done"
    /\ Len(coefficient_results) = 1
    /\ \E i \in AllIndustries : \E yrs \in AllRanges :
           HasSentinel(i, yrs, focus_commodity)

(***************************************************************************)
(* C3                                                                      *)
(***************************************************************************)
\* C3 as stated: when the run ends without a fatal error, every pair whose
\* industry has a row in the range and whose focus commodity has no -1 in
\* the range has exactly one row in each result table.
C3_AsStated ==
    pc = "done" =>
        \A i \in AllIndustries : \A yrs \in AllRanges :
            ~ Skippable(i, yrs) =>
                /\ Cardinality(ResultRows(coefficient_results, i, yrs)) = 1
                /\ Cardinality(ResultRows(categorization_results.rows, i, yrs)) = 1

\* C3 as amended: when the run ends without a fatal error, every pair whose
\* industry is not the focus commodity, has a row in the range and has no -1
\* of the focus commodity in the range has exactly one row in each result
\* table; the pairs of the industry that is the focus commodity have none.
C3_OnlySkips ==
    pc = "done" =>
        \A i \in AllIndustries : \A yrs \in AllRanges :
            /\ (i # focus_commodity /\ ~ Skippable(i, yrs)) =>
                   /\ Cardinality(ResultRows(coefficient_results, i, yrs)) = 1
                   /\ Cardinality(ResultRows(categorization_results.rows, i, yrs)) = 1
            /\ i = focus_commodity =>
                   /\ ResultRows(coefficient_results, i, yrs) = {}
                   /\ ResultRows(categorization_results.rows, i, yrs) = {}

\* The run is done with the rows of two pairs, and the industry that is the
\* focus commodity has a range that neither skip condition covers.
C3_Witness ==
    /\ pc = "done"
    /\ Len(coefficient_results) = 2
    /\ \E yrs \in AllRanges : ~ Skippable(focus_commodity, yrs)


(***************************************************************************)
(* C4                                                                      *)
(***************************************************************************)
\* C4: for a pair that is not skipped, the commodity predictors (columns of
\* X, and the commodities tested in the sensitivity analysis) are exactly
\* the commodity columns other than the focus commodity whose raw value is
\* not -1 in any row of the range.
C4_UsablePredictors ==
    pc \in {"fit", "append", "sens"} =>
        LET usable ==
                { c \in Commodities \ {"quantity_change", focus_commodity} :
                    ~ HasSentinel(current_industry, current_years, c) }
        IN  /\ SeqToSet(cols_for_prediction) \ {"quantity_change"} = usable
            /\ \A k \in 1..Len(data_train_x) :
                   (DOMAIN data_train_x[k]) \ {"quantity_change"} = usable
            /\ focus_commodity \notin SeqToSet(cols_for_prediction)
            /\ pc = "sens" => test_commodity \in usable \cup {"quantity_change"}

\* Training is about to start; one commodity is -1 in exactly one row of
\* the range and is left out, another commodity is a predictor.
C4_Witness ==
    /\ pc = "fit"
    /\ \E c \in Commodities \ {"quantity_change", focus_commodity} :
           /\ Cardinality({ k \in RowsOfPair(current_industry, current_years) :
                              input_changes[k].v[c] = -1 }) = 1
           /\ Cardinality(RowsOfPair(current_industry, current_years)) > 1
           /\ c \notin SeqToSet(cols_for_prediction)
    /\ \E c \in Commodities \ {"quantity_change", focus_commodity} :
           c \in SeqToSet(cols_for_prediction)

(***************************************************************************)
(* C5                                                                      *)
(***************************************************************************)
\* C5: for a pair that is not skipped and every row of the range, the
\* feature of each usable commodity is its raw change minus the row's
\* quantity_change, the target is the focus commodity's raw change minus
\* the row's quantity_change, and the quantity_change feature is the raw
\* quantity_change.
C5_OutputAdjusted ==
    pc = "fit" =>
        /\ Len(data_extract) = Cardinality(RowsOfPair(current_industry, current_years))
        /\ Len(data_train_x) = Len(data_extract)
        /\ Len(data_train_y) = Len(data_extract)
        /\ \A k \in 1..Len(data_extract) :
               LET raw == data_extract[k].v
               IN  /\ \E j \in RowsOfPair(current_industry, current_years) :
                          input_changes[j] = data_extract[k]
                   /\ \A c \in DOMAIN data_train_x[k] :
                          data_train_x[k][c] =
                              IF c = "quantity_change" THEN raw["quantity_change"]
                              ELSE raw[c] - raw["quantity_change"]
                   /\ data_train_y[k] =
                          raw[focus_commodity] - raw["quantity_change"]

\* Training is about to start on a matrix that has the quantity_change
\* column, with a row whose quantity_change and whose raw change of a usable
\* commodity are both non-zero.
C5_Witness ==
    /\ pc = "fit"
    /\ \E k \in 1..Len(data_extract) :
           /\ "quantity_change" \in DOMAIN data_train_x[k]
           /\ data_extract[k].v["quantity_change"] # 0
           /\ \E c \in (DOMAIN data_train_x[k]) \ {"quantity_change"} :
                  data_extract[k].v[c] # 0

(***************************************************************************)
(* C6                                                                      *)
(***************************************************************************)
\* C6: for every pair that is not skipped, the matrix X passed to training
\* has the raw quantity_change column, whatever values quantity_change
\* takes in the range.
C6_QuantityChangeKept ==
    pc = "fit" =>
        /\ "quantity_change" \in SeqToSet(cols_for_prediction)
        /\ \A k \in 1..Len(data_train_x) :
               "quantity_change" \in DOMAIN data_train_x[k]

(***************************************************************************)
(* C7                                                                      *)
(***************************************************************************)
\* C7: once fit or predict has raised for a pair, the script has ended: no
\* step follows (no retry, no skip, no later pair, no classification), fit
\* was called once for that pair and for no pair after it, and neither
\* result file is written.
C7_FailureIsFatal ==
    raised # NoPair =>
        /\ pc = "aborted"
        /\ ~ ENABLED Next
        /\ ~ categorization_results.created
        /\ files = {}
        /\ Len(fit_calls) >= 1
        /\ fit_calls[Len(fit_calls)] = raised
        /\ Cardinality({ n \in 1..Len(fit_calls) : fit_calls[n] = raised }) = 1

\* The fit of the second processed pair raised after the first pair's row
\* was completed.
C7_Witness ==
    /\ raised # NoPair
    /\ Len(coefficient_results) = 1
    /\ Len(fit_calls) = 2
    /\ Len(fit_returns) = 1

(***************************************************************************)
(* C8                                                                      *)
(***************************************************************************)
\* C8 as stated: in every row of the coefficient results a column holds the
\* sensitivity coefficient of its commodity if that was a predictor of the
\* row's pair, and is blank (holds no number) otherwise, in particular for
\* the focus commodity and for a commodity left out for a sentinel.
C8_AsStated ==
    \A k \in 1..Len(coefficient_results) :
        RowComplete(k) =>
            LET m    == fit_returns[k].best_estimator
                used == DOMAIN m.w
                row  == coefficient_results[k]
            IN  \A c \in Commodities :
                    IF c \in used
                    THEN row.v[c] = SlopeOfModel(m, c)
                    ELSE ~ IsNum(row.v[c])

\* C8 as amended: in every row of the coefficient results a column holds
\* the sensitivity coefficient of its commodity if that was a predictor of
\* the row's pair, and holds the number 0 otherwise, in particular for the
\* focus commodity and for a commodity left out for a sentinel.
C8_CoefficientCells ==
    \A k \in 1..Len(coefficient_results) :
        RowComplete(k) =>
            LET m    == fit_returns[k].best_estimator
                used == DOMAIN m.w
                row  == coefficient_results[k]
            IN  /\ fit_returns[k].pair.industry = row.industry
                /\ YearLabel(fit_returns[k].pair.years) = row.year
                /\ focus_commodity \notin used
                /\ \A c \in Commodities :
                       /\ HasSentinel(row.industry, RangeOfRow(row), c) => c \notin used
                       /\ IF c \in used
                          THEN row.v[c] = SlopeOfModel(m, c)
                          ELSE row.v[c] = Num(0, 1)

\* Two completed rows; in one of them a commodity other than the focus
\* commodity was left out for a sentinel while another has a non-zero
\* coefficient.
C8_Witness ==
    /\ pc = "done"
    /\ Len(coefficient_results) = 2
    /\ \E k \in 1..2 : \E c, e \in Commodities \ {focus_commodity} :
           /\ HasSentinel(coefficient_results[k].industry,
                          RangeOfRow(coefficient_results[k]), c)
           /\ coefficient_results[k].v[c] = Num(0, 1)
           /\ coefficient_results[k].v[e].num # 0

(***************************************************************************)
(* C9                                                                      *)
(***************************************************************************)
\* C9: the categorization results have the rows of the coefficient results
\* in the same order with the same columns, the same industry, year and
\* rmse in every row, and 'S', 'C' or '' in every commodity cell.
C9_SameShape ==
    categorization_results.created =>
        /\ Len(categorization_results.rows) = Len(coefficient_results)
        /\ \A k \in 1..Len(coefficient_results) :
               LET cat  == categorization_results.rows[k]
                   coef == coefficient_results[k]
               IN  /\ DOMAIN cat = DOMAIN coef
                   /\ DOMAIN cat.v = DOMAIN coef.v
                   /\ cat.industry = coef.industry
                   /\ cat.year = coef.year
                   /\ cat.rmse = coef.rmse
                   /\ \A c \in DOMAIN cat.v :
                          /\ IsStr(cat.v[c])
                          /\ cat.v[c].str \in {"S", "C", ""}

\* Categorization results of two rows in which all three labels occur.
C9_Witness ==
    /\ categorization_results.created
    /\ Len(categorization_results.rows) = 2
    /\ \A label \in {"S", "C", ""} :
           \E k \in 1..2 : \E c \in Commodities :
               categorization_results.rows[k].v[c] = Str(label)


(***************************************************************************)
(* C10 (under SpecSens)                                                    *)
(***************************************************************************)
\* Column c of the last result row has been through the sensitivity loop
Analyzed(c) ==
    pc \notin {"sens", "aborted"} \/ Pos(cols_for_prediction, c) < tc_idx

\* C10: when the fitted model is a line of slope a in the tested predictor
\* (all other features at 0), the coefficient computed over the 51 test
\* values is a; for "325" with slope 1 it is 1, and with rmse 0 and divisor
\* 4 the label of "325" is 'C'.
C10_LinearModel ==
    \A k \in 1..Len(coefficient_results) :
        LET m   == fit_returns[k].best_estimator
            row == coefficient_results[k]
        IN  m.shape = "linear" =>
                \A c \in DOMAIN m.w :
                    (k < Len(coefficient_results) \/ Analyzed(c)) =>
                        /\ row.v[c] = Num(m.w[c], 1)
                        /\ ( /\ categorization_results.created
                             /\ c = "325" /\ m.w[c] = 1 /\ row.rmse = 0 )
                               => categorization_results.rows[k].v[c] = Str("C")

\* The model predicts exactly the test value of "325" (slope 1, intercept
\* 0, every other slope 0), rmse is 0, the coefficient of "325" is 1 and its
\* label is 'C'.
C10_Witness ==
    /\ categorization_results.created
    /\ Len(coefficient_results) = 1
    /\ LET m == fit_returns[1].best_estimator
       IN  /\ m.shape = "linear"
           /\ m.b = 0
           /\ m.w["325"] = 1
           /\ \A c \in (DOMAIN m.w) \ {"325"} : m.w[c] = 0
    /\ coefficient_results[1].rmse = 0
    /\ coefficient_results[1].v["325"] = Num(1, 1)
    /\ categorization_results.rows[1].v["325"] = Str("C")

(***************************************************************************)
(* C11 (under SpecSens)                                                    *)
(***************************************************************************)
\* The predictions of the test commodity analysed last, in call order
PredictionsMade == [i \in 1..Len(predict_calls) |-> predict_calls[i].y]

\* The calls made with the all-zero baseline vector
BaselineCalls ==
    { i \in 1..Len(predict_calls) :
        \A c \in DOMAIN predict_calls[i].x : predict_calls[i].x[c] = 0 }

\* The predictions made lie on a straight line over the test values
StraightLine ==
    \A i \in 1..(Len(predict_calls) - 2) :
        predict_calls[i + 1].y - predict_calls[i].y
            = predict_calls[i + 2].y - predict_calls[i + 1].y

\* C11 as stated: for every trained model and every predictor under test,
\* the intercept of the least-squares regression of the 51 predictions on
\* the 51 test values equals the model's prediction at the all-zero baseline
\* vector (the prediction recorded for the test value 0).
C11_AsStated ==
    reg.fitted =>
        /\ BaselineCalls # {}
        /\ \A i \in BaselineCalls : reg.intercept = Num(predict_calls[i].y, 1)

\* C11 as amended: the intercept of the regression is the mean of the 51
\* predictions; it equals the prediction at the all-zero baseline vector
\* when the predictions lie on a straight line over the test values.
C11_Intercept ==
    reg.fitted =>
        /\ Len(predict_calls) = NumTestValues
        /\ reg.intercept = Num(Sum(PredictionsMade), NumTestValues)
        /\ BaselineCalls # {}
        /\ StraightLine =>
               \A i \in BaselineCalls : reg.intercept = Num(predict_calls[i].y, 1)

\* A regression was fitted on predictions that lie on a straight line with
\* a slope and a baseline prediction other than 0.
C11_Witness ==
    /\ reg.fitted
    /\ StraightLine
    /\ reg.coef.num # 0
    /\ \E i \in BaselineCalls : predict_calls[i].y # 0

(***************************************************************************)
(* C12 (under SpecSens)                                                    *)
(***************************************************************************)
Labelled(cell) == cell = Str("C") \/ cell = Str("S")

\* The label of coefficient x in a row of RMSE r under divisor d
LabelUnder(x, r, d) == CategorizeDiv(x, x, r, d)

\* C12 as stated: for a coefficient c and RMSE r >= 0 of a result row, a
\* label 'C' or 'S' obtained with divisor d is kept for every smaller
\* positive divisor, a Neutral obtained with d stays Neutral for every
\* larger divisor, and every row is labelled with the one divisor of
\* line 59.
C12_AsStated ==
    categorization_results.created =>
        \A k \in 1..Len(coefficient_results) : \A c \in Commodities :
            LET x == coefficient_results[k].v[c]
                r == coefficient_results[k].rmse
            IN  /\ r >= 0
                /\ categorization_results.rows[k].v[c] = LabelUnder(x, r, rmse_divisor)
                /\ \A d \in Divisors : \A e \in Divisors :
                       /\ (e < d /\ Labelled(LabelUnder(x, r, d)))
                              => LabelUnder(x, r, e) = LabelUnder(x, r, d)
                       /\ (e > d /\ LabelUnder(x, r, d) = Str(""))
                              => LabelUnder(x, r, e) = Str("")

\* C12 as amended: for a coefficient c and RMSE r >= 0 of a result row, a
\* label 'C' or 'S' obtained with divisor d is kept for every larger
\* divisor, a Neutral obtained with d stays Neutral for every smaller
\* positive divisor, and every row is labelled with the one divisor of
\* line 59.
C12_LargerIsPermissive ==
    categorization_results.created =>
        \A k \in 1..Len(coefficient_results) : \A c \in Commodities :
            LET x == coefficient_results[k].v[c]
                r == coefficient_results[k].rmse
            IN  /\ r >= 0
                /\ categorization_results.rows[k].v[c] = LabelUnder(x, r, rmse_divisor)
                /\ \A d \in Divisors : \A e \in Divisors :
                       /\ (e > d /\ Labelled(LabelUnder(x, r, d)))
                              => LabelUnder(x, r, e) = LabelUnder(x, r, d)
                       /\ (e < d /\ LabelUnder(x, r, d) = Str(""))
                              => LabelUnder(x, r, e) = Str("")

\* The table holds a cell labelled 'C' that a smaller divisor leaves
\* Neutral and an empty cell that a larger divisor labels 'S'.
C12_Witness ==
    /\ categorization_results.created
    /\ \E k \in 1..Len(coefficient_results) : \E c \in Commodities :
           /\ categorization_results.rows[k].v[c] = Str("C")
           /\ \E e \in 1..(rmse_divisor - 1) :
                  LabelUnder(coefficient_results[k].v[c],
                             coefficient_results[k].rmse, e) = Str("")
    /\ \E k \in 1..Len(coefficient_results) : \E c \in Commodities :
           /\ categorization_results.rows[k].v[c] = Str("")
           /\ \E e \in (rmse_divisor + 1)..MaxDivisor :
                  LabelUnder(coefficient_results[k].v[c],
                             coefficient_results[k].rmse, e) = Str("S")

(***************************************************************************)
(* C13 (under SpecSens)                                                    *)
(***************************************************************************)
\* C13: in a row whose RMSE is 0, a coefficient c # 0 is labelled by its
\* sign alone, 'C' for c > 0 and 'S' for c < 0, in the table and under
\* every positive divisor.
C13_SignAlone ==
    categorization_results.created =>
        \A k \in 1..Len(coefficient_results) : \A c \in Commodities :
            LET x    == coefficient_results[k].v[c]
                sign == IF x.num > 0 THEN Str("C") ELSE Str("S")
            IN  (coefficient_results[k].rmse = 0 /\ x.num # 0) =>
                    /\ categorization_results.rows[k].v[c] = sign
                    /\ \A d \in Divisors : LabelUnder(x, 0, d) = sign

\* A labelled row of RMSE 0 with a positive coefficient below 1 and a
\* negative one.
C13_Witness ==
    /\ categorization_results.created
    /\ \E k \in 1..Len(coefficient_results) :
           /\ coefficient_results[k].rmse = 0
           /\ \E c \in Commodities :
                  /\ coefficient_results[k].v[c].num > 0
                  /\ coefficient_results[k].v[c].num < coefficient_results[k].v[c].den
                  /\ categorization_results.rows[k].v[c] = Str("C")
           /\ \E c \in Commodities :
                  /\ coefficient_results[k].v[c].num < 0
                  /\ categorization_results.rows[k].v[c] = Str("S")

(***************************************************************************)
(* C14                                                                     *)
(***************************************************************************)
\* C14 as stated: every (X, y) that passed the two skip checks and reaches
\* grid_search.fit has at least 4 rows (the folds of the cross-validation)
\* and at least one predictor column.
C14_AsStated ==
    pc = "fit" =>
        /\ Len(data_train_x) >= n_splits
        /\ Len(data_train_y) >= n_splits
        /\ Len(cols_for_prediction) >= 1

\* C14 as amended: every (X, y) that passed the two skip checks and reaches
\* grid_search.fit has at least one row and no -1 in the raw focus
\* commodity; it may have fewer than 4 rows, and then the fit cannot return
\* and raises; every fit that returned had at least 4 rows and at least one
\* predictor column.
C14_ReachesFit ==
    /\ pc = "fit" =>
           /\ Len(data_train_x) >= 1
           /\ Len(data_train_y) = Len(data_train_x)
           /\ Len(data_train_x)
                  = Cardinality(RowsOfPair(current_industry, current_years))
           /\ ~ HasSentinel(current_industry, current_years, focus_commodity)
           /\ ENABLED FitRaises
           /\ Len(data_train_x) < n_splits => ~ ENABLED Fit
    /\ \A n \in 1..Len(fit_returns) :
           /\ Cardinality(RowsOfPair(fit_returns[n].pair.industry,
                                     fit_returns[n].pair.years)) >= n_splits
           /\ DOMAIN fit_returns[n].best_estimator.w # {}

\* The fit raised for a pair that passed both skip checks with fewer than 4
\* rows.
C14_Witness ==
    /\ raised # NoPair
    /\ pc = "aborted"
    /\ Len(data_train_x) >= 1
    /\ Len(data_train_x) < n_splits
    /\ Len(fit_calls) = Len(fit_returns) + 1

(***************************************************************************)
(* C16                                                                     *)
(***************************************************************************)
\* The iterations of the year-range loop that reached training
ProcessedVisits ==
    { n \in 1..Len(visited) : visited[n].outcome = "processed" }

\* The iteration that row k of the coefficient results comes from: the
\* k-th that reached training
VisitOfRow(k) ==
    CHOOSE n \in ProcessedVisits :
        Cardinality({ j \in ProcessedVisits : j <= n }) = k

\* Every coefficient of row k is written
CoefficientsWritten(k) ==
    \A c \in DOMAIN fit_returns[k].best_estimator.w :
        coefficient_results[k].v[c]
            = SlopeOfModel(fit_returns[k].best_estimator, c)

\* Row k has its labels
LabelsWritten(k) ==
    /\ categorization_results.created
    /\ k <= Len(categorization_results.rows)
    /\ \A c \in Commodities : IsStr(categorization_results.rows[k].v[c])

InLoopBody == pc \in {"fit", "append", "sens"}

AfterLoop == pc \in {"categorize", "save_coefficient", "save_categorization", "done"}

\* The number of iterations a run without a fatal error makes
TotalVisits ==
    Cardinality({ i \in 1..Len(industries) : industries[i] = focus_commodity })
      + Len(year_ranges)
          * Cardinality({ i \in 1..Len(industries) : industries[i] # focus_commodity })

\* C16 as stated: the whole chain of a pair, its classification included,
\* is complete before any step of the next pair runs: once an iteration
\* after that of row k has begun, row k has its coefficients and its
\* labels.
C16_AsStated ==
    \A k \in 1..Len(coefficient_results) :
        Len(visited) > VisitOfRow(k) =>
            /\ CoefficientsWritten(k)
            /\ LabelsWritten(k)

\* C16 as amended: filtering, training, sensitivity analysis and
\* accumulation of a pair are complete before the next pair's filtering
\* begins and no two pairs are interleaved: rows come in the order of the
\* iterations that reached training, a row has all its coefficients once a
\* later iteration has begun, and the loop body works on the pair visited
\* last.  Classification is not part of the chain: no row has labels while
\* the loop runs, and all rows are labelled together after the last
\* iteration.
C16_Sequential ==
    /\ Len(coefficient_results) <= Cardinality(ProcessedVisits)
    /\ Len(fit_calls) = Cardinality(ProcessedVisits) - (IF pc = "fit" THEN 1 ELSE 0)
    /\ \A k \in 1..Len(coefficient_results) :
           /\ coefficient_results[k].industry = visited[VisitOfRow(k)].industry
           /\ coefficient_results[k].year = YearLabel(visited[VisitOfRow(k)].years)
           /\ fit_calls[k] = [industry |-> visited[VisitOfRow(k)].industry,
                              years |-> visited[VisitOfRow(k)].years]
           /\ Len(visited) > VisitOfRow(k) => CoefficientsWritten(k)
    /\ InLoopBody =>
           /\ visited[Len(visited)] = Visit(current_industry, current_years, "processed")
           /\ Len(coefficient_results)
                  = Cardinality(ProcessedVisits) - (IF pc = "sens" THEN 0 ELSE 1)
    /\ (~ InLoopBody /\ pc # "aborted") =>
           /\ Len(coefficient_results) = Cardinality(ProcessedVisits)
           /\ \A k \in 1..Len(coefficient_results) : CoefficientsWritten(k)
    /\ ~ AfterLoop => ~ categorization_results.created
    /\ categorization_results.created =>
           /\ Len(visited) = TotalVisits
           /\ \A k \in 1..Len(coefficient_results) :
                  CoefficientsWritten(k) /\ LabelsWritten(k)

\* The second pair is in training: the row of the first pair has all its
\* coefficients and no labels.
C16_Witness ==
    /\ pc = "fit"
    /\ Len(coefficient_results) = 1
    /\ Cardinality(ProcessedVisits) = 2
    /\ CoefficientsWritten(1)
    /\ ~ LabelsWritten(1)

(***************************************************************************)
(* C17 (under SpecSens)                                                    *)
(***************************************************************************)
\* The predictor whose test-value loop ran last
LastTested ==
    IF pc \in {"sens", "aborted"} THEN cols_for_prediction[tc_idx - 1]
    ELSE cols_for_prediction[Len(cols_for_prediction)]

\* The i-th of the 51 values from -0.50 to 0.50 in steps of 0.02, in
\* hundredths
GridValue(i) == 2 * (i - 1) - 50

\* C17: in each of the 51 calls of grid_search.predict made for predictor p,
\* the row passed has the predictors of the pair as its columns,
\* quantity_change among them, the i-th test value (2 decimals) in column p
\* and 0 in every other column, also when other predictors were tested
\* before p.
C17_OnlyTested ==
    predict_calls # << >> =>
        /\ Len(predict_calls) = NumTestValues
        /\ \A i \in 1..Len(predict_calls) :
               LET x == predict_calls[i].x
               IN  /\ DOMAIN x = SeqToSet(cols_for_prediction)
                   /\ "quantity_change" \in DOMAIN x
                   /\ x[LastTested] = GridValue(i)
                   /\ \A c \in (DOMAIN x) \ {LastTested} : x[c] = 0

\* The calls for the third predictor tested, quantity_change, were made
\* after two other predictors had been through all the test values.
C17_Witness ==
    /\ predict_calls # << >>
    /\ LastTested = "quantity_change"
    /\ Pos(cols_for_prediction, LastTested) = 3
    /\ predict_calls[1].x[LastTested] = -50
    /\ predict_calls[NumTestValues].x[LastTested] = 50
    /\ predict_calls[NumTestValues].x[cols_for_prediction[1]] = 0

(***************************************************************************)
(* C18                                                                     *)
(***************************************************************************)
\* C18: every result row has the industry and year range of the pair its
\* model was fitted for, the RMSE of that fit and, once written, the
\* coefficients of that model; the estimator the loop body appends and
\* queries is the one fitted for the current pair, also after skipped
\* pairs.
C18_ScopedToPair ==
    /\ Len(fit_returns) >= Len(coefficient_results)
    /\ \A k \in 1..Len(coefficient_results) :
           LET fit == fit_returns[k]
               row == coefficient_results[k]
           IN  /\ fit.pair.industry = row.industry
               /\ YearLabel(fit.pair.years) = row.year
               /\ fit.pair = fit_calls[k]
               /\ row.rmse = -fit.best_score
               /\ RowComplete(k) => CoefficientsWritten(k)
    /\ pc \in {"append", "sens"} =>
           /\ grid_search.pair = CurrentPair
           /\ grid_search = fit_returns[Len(fit_returns)]
           /\ DOMAIN grid_search.best_estimator.w = SeqToSet(cols_for_prediction)
    /\ (pc = "sens" /\ tc_idx > 1) =>
           \A i \in 1..Len(predict_calls) :
               predict_calls[i].estimator_of = CurrentPair
    /\ (~ InLoopBody /\ pc # "aborted" /\ Len(coefficient_results) > 0) =>
           \A i \in 1..Len(predict_calls) :
               /\ predict_calls[i].estimator_of.industry
                      = coefficient_results[Len(coefficient_results)].industry
               /\ YearLabel(predict_calls[i].estimator_of.years)
                      = coefficient_results[Len(coefficient_results)].year

\* Two pairs were processed with a skipped pair between them, and the fits
\* gave them different curve shapes and different RMSEs.
C18_Witness ==
    /\ pc = "done"
    /\ Len(coefficient_results) = 2
    /\ \E n \in 2..(Len(visited) - 1) :
           /\ visited[n].outcome \in {"absent", "incomplete"}
           /\ visited[n - 1].outcome = "processed"
           /\ visited[n + 1].outcome = "processed"
    /\ coefficient_results[1].rmse # coefficient_results[2].rmse
    /\ fit_returns[1].best_estimator.shape # fit_returns[2].best_estimator.shape

(***************************************************************************)
(* C19 (under SpecLive)                                                    *)
(***************************************************************************)
RECURSIVE ExpectedVisits(_)
\* The iterations in industry-major order from industry i on: the year
\* ranges of every industry in turn, and a single iteration (the skip of
\* lines 190-192) for the industry that is the focus commodity
ExpectedVisits(i) ==
    IF i > Len(industries) THEN << >>
    ELSE (IF industries[i] = focus_commodity
          THEN << << industries[i], << >> >> >>
          ELSE [j \in 1..Len(year_ranges) |-> << industries[i], year_ranges[j] >>])
         \o ExpectedVisits(i + 1)

AllVisited ==
    Len(visited) = Len(ExpectedVisits(1))

VisitedInOrder ==
    /\ Len(visited) <= Len(ExpectedVisits(1))
    /\ \A n \in 1..Len(visited) :
           /\ << visited[n].industry, visited[n].years >> = ExpectedVisits(1)[n]
           /\ visited[n].outcome \in {"focus", "absent", "incomplete", "processed"}

\* C19: a run in which no fatal error occurs reaches the end of the
\* script; the year ranges of every industry are visited once each in
\* industry-major order (the industry that is the focus commodity is
\* skipped as a whole), each skipped or processed, and a result file is
\* written only after the last of them was visited.
C19_ReachesDone ==
    /\ [](/\ VisitedInOrder
          /\ (files # {} \/ AfterLoop) => AllVisited
          /\ pc = "done" =>
                 files = {"coefficient_results", "categorization_results"}
          /\ Cardinality(ProcessedVisits) >= Len(coefficient_results))
    /\ <>(pc = "done" \/ pc = "aborted")

\* The run is done with both files written after a pair was processed and a
\* pair was skipped.
C19_Witness ==
    /\ pc = "done"
    /\ files = {"coefficient_results", "categorization_results"}
    /\ AllVisited
    /\ \E n \in 1..Len(visited) : visited[n].outcome = "processed"
    /\ \E n \in 1..Len(visited) : visited[n].outcome = "incomplete"

(***************************************************************************)
(* C20                                                                     *)
(***************************************************************************)
\* C20: no step changes input_changes; the extract of a pair consists of
\* rows of it; the sensitivity analysis changes neither the extract nor
\* the output-adjusted table nor the training matrix; and inside the loop
\* only the coefficient results are written, no other table and no file.
C20_DatasetReadOnly ==
    [][ /\ input_changes' = input_changes
        /\ InLoopBody' =>
               \A k \in 1..Len(data_extract') :
                   \E j \in 1..Len(input_changes) :
                       input_changes[j] = data_extract'[k]
        /\ pc = "sens" =>
               UNCHANGED << data_extract, data_train, data_train_x, data_train_y >>
        /\ ~ AfterLoop =>
               UNCHANGED << categorization_results, files >> ]_vars

\* The second processed pair is in training on an output-adjusted table
\* that differs from its extract, after the sensitivity analysis of the
\* first pair.
C20_Witness ==
    /\ pc = "fit"
    /\ Len(coefficient_results) = 1
    /\ predict_calls # << >>
    /\ data_train # data_extract
    /\ \A k \in 1..Len(data_extract) :
           \E j \in 1..Len(input_changes) : input_changes[j] = data_extract[k]

(***************************************************************************)
(* C21                                                                     *)
(***************************************************************************)
\* The usage of a commodity by an industry in a year, in the input-output
\* table.
Usage(year, industry, commodity) == data_io[year][industry][commodity]

\* C21: a centred input-change value of exactly -1 occurs only if the
\* industry did not use the commodity in that year: whenever the ingestion
\* writes a ratio of 0, in the list of the column being computed or in the
\* rows of the saved file, the usage of the commodity by the industry in
\* the current year is 0.
C21_SentinelMeansUnused ==
    /\ \A r \in 1..Len(val_list) :
           Centred(val_list[r]) = Num(-1, 1)
               => Usage(years[io_year], col_names[io_col], row_names[r]) = 0
    /\ \A n \in 1..Len(final_data) :
           Centred(final_data[n].value) = Num(-1, 1)
               => Usage(final_data[n].year, final_data[n].industry,
                        final_data[n].commodity) = 0

(***************************************************************************)
(* C22                                                                     *)
(***************************************************************************)
\* C22: the result accumulator only grows and completed rows are frozen.
\* In every step the number of rows does not decrease; the industry, year
\* and rmse cells of an existing row keep their values; a row that is not
\* the last row of the table after the step is unchanged; and a row changes
\* only during the sensitivity analysis of the pair it belongs to, so that
\* once a later pair has begun no cell of an earlier pair's row changes.
\* The configured year ranges have distinct endpoints, and no two rows have
\* the same industry and year-range label.
C22_RowsFrozen ==
    /\ [](\A j, k \in 1..Len(coefficient_results) :
             (/\ coefficient_results[j].industry = coefficient_results[k].industry
              /\ coefficient_results[j].year = coefficient_results[k].year)
                 => j = k)
    /\ [][LET old == coefficient_results
              new == coefficient_results'
          IN  /\ Len(new) >= Len(old)
              /\ \A k \in 1..Len(old) :
                     /\ new[k].industry = old[k].industry
                     /\ new[k].year = old[k].year
                     /\ new[k].rmse = old[k].rmse
                     /\ k < Len(new) => new[k] = old[k]
                     /\ new[k] # old[k] =>
                            /\ pc = "sens"
                            /\ old[k].industry = current_industry
                            /\ old[k].year = YearLabel(current_years)]_vars

\* The analysis of the second processed pair is under way: the table has two
\* rows for different pairs, the first with the coefficients of its pair and
\* the second with a coefficient already written.
C22_Witness ==
    /\ pc = "sens"
    /\ tc_idx > 1
    /\ Len(coefficient_results) = 2
    /\ coefficient_results[1].year # coefficient_results[2].year
    /\ \E c \in Commodities : coefficient_results[1].v[c] # Num(0, 1)
    /\ \E c \in Commodities : coefficient_results[2].v[c] # Num(0, 1)

====
